---- MODULE Spec2Model ----
(***************************************************************************)
(* Model of src/app.py: the RB2B -> lemlist webhook bridge.                *)
(*                                                                         *)
(* One process holds the module globals LEMLIST_API_KEY and CAMPAIGN_ID.   *)
(* The main thread runs the __main__ block (when the file is run as a      *)
(* script); worker threads run rb2b_webhook_receiver, one request at a     *)
(* time each.  get_or_create_campaign runs on whichever thread calls it.   *)
(* Every outbound HTTP call is split in two steps: the program sends the   *)
(* call and blocks, the destination API answers (or never does).           *)
(*                                                                         *)
(* Python values: None is the string "None"; str truthiness is             *)
(* "neither None nor the empty string".  JSON null is not drawn as an      *)
(* input value: dict.get returns None for a null and for a missing key     *)
(* alike.  Successful answers of GET/POST /campaigns follow the lemlist    *)
(* contract (a JSON list of campaigns, each with a name and a non-empty    *)
(* _id).  Library calls behave as in the current releases: Flask >= 2.1   *)
(* (get_json raises on a body that is not JSON, whatever its content       *)
(* type) and requests >= 2.27 (response.json() raises JSONDecodeError, a   *)
(* RequestException).  No outbound call passes timeout=, so requests waits *)
(* for an answer without limit.                                            *)
(***************************************************************************)
EXTENDS Integers, Sequences, FiniteSets, TLC

VARIABLES
    LEMLIST_API_KEY,  \* app.py:12, fixed at import
    CAMPAIGN_ID,      \* app.py:30, the process-wide cached identifier
    launch,           \* "script" (python app.py) or "wsgi" (app imported by a server)
    proc,             \* "starting", "serving" or "exited"
    remote,           \* the campaigns held by the destination API, in list order
    th,               \* per thread: position and locals of the running call
    budget,           \* inbound requests still to arrive
    createCalls,      \* history: POST /campaigns calls issued by the process
    returned          \* history: identifiers returned by get_or_create_campaign

vars == <<LEMLIST_API_KEY, CAMPAIGN_ID, launch, proc, remote, th, budget,
          createCalls, returned>>

----------------------------------------------------------------------------
(* Bounds *)

MaxRequests == 3
MaxKeys == 2

----------------------------------------------------------------------------
(* Python values and the field table *)

None == "None"
Unbound == "Unbound"
CAMPAIGN_NAME == "website_leads"

\* bool(v) for a str or None
Truthy(v) == v /= None /\ v /= ""

\* a or b
Or(a, b) == IF Truthy(a) THEN a ELSE b

\* d.get(k)
Get(d, k) == IF k \in DOMAIN d THEN d[k] ELSE None

EmailKeys == <<"WorkEmail", "Business Email", "email">>

\* target field -> its source keys, in the order the code tries them
FieldSources ==
    [ firstName        |-> <<"FirstName", "First Name">>,
      lastName         |-> <<"LastName", "Last Name">>,
      linkedinUrl      |-> <<"LinkedIn URL", "LinkedInUrl">>,
      jobTitle         |-> <<"Title", "jobTitle">>,
      companyName      |-> <<"CompanyName", "Company Name">>,
      companyWebsite   |-> <<"Website", "companyWebsite">>,
      companyIndustry  |-> <<"Industry", "companyIndustry">>,
      companySize      |-> <<"EstimatedEmployeeCount", "Employee Count">>,
      city             |-> <<"City">>,
      state            |-> <<"State">>,
      zipcode          |-> <<"Zipcode", "zipcode">>,
      estimatedRevenue |-> <<"EstimateRevenue", "Estimate Revenue">> ]

TargetFields == DOMAIN FieldSources

Range(s) == {s[i] : i \in DOMAIN s}

AllKeys == Range(EmailKeys) \cup UNION {Range(FieldSources[f]) : f \in TargetFields}

\* mutant: the candidates are tried in the reverse order
ExtractEmail_LastWins(d) ==
    Or(Or(Get(d, EmailKeys[3]), Get(d, EmailKeys[2])), Get(d, EmailKeys[1]))

\* mutant: the third candidate key is forgotten
ExtractEmail_TwoKeys(d) == Or(Get(d, EmailKeys[1]), Get(d, EmailKeys[2]))

\* work_email or business_email_field or email_field
ExtractEmail(d) ==
    Or(Or(Get(d, EmailKeys[1]), Get(d, EmailKeys[2])), Get(d, EmailKeys[3]))

\* mutant: the alternate spelling is tried first
MapField_SecondFirst(d, f) ==
    LET ks == FieldSources[f]
    IN  IF Len(ks) = 1 THEN Get(d, ks[1]) ELSE Or(Get(d, ks[2]), Get(d, ks[1]))

\* one entry of the dict literal: d.get(k1) or d.get(k2), or d.get(k1) alone
MapField(d, f) ==
    LET ks == FieldSources[f]
    IN  IF Len(ks) = 1 THEN Get(d, ks[1]) ELSE Or(Get(d, ks[1]), Get(d, ks[2]))

\* {k: v for k, v in lemlist_payload.items() if v is not None}
KeepField(v) == v /= None

BuildPayload(d) ==
    [f \in {g \in TargetFields : KeepField(MapField(d, g))} |-> MapField(d, f)]

----------------------------------------------------------------------------
(* Inbound bodies *)

EmptyRecord == [k \in {} |-> ""]

Extend(r, k, v) == [x \in DOMAIN r \cup {k} |-> IF x = k THEN v ELSE r[x]]

\* every JSON object with at most n of the keys, values drawn from vals
RECURSIVE RecordsOver(_, _, _)
RecordsOver(keys, vals, n) ==
    IF n = 0 THEN {EmptyRecord}
    ELSE LET below == RecordsOver(keys, vals, n - 1)
         IN  below \cup {Extend(r, k, v) : r \in below, k \in keys, v \in vals}

JsonObject(d) == [kind |-> "object", data |-> d]
\* an empty body, or bytes that are not JSON
InvalidBody == [kind |-> "invalid", data |-> EmptyRecord]
\* valid JSON that is not an object: falsy (null, [], 0, "") or truthy ([1], "x", 5)
FalsyValue == [kind |-> "falsy_value", data |-> EmptyRecord]
TruthyValue == [kind |-> "truthy_value", data |-> EmptyRecord]

FieldValues == {"", "x", "y"}

WideBodies ==
    {InvalidBody, FalsyValue, TruthyValue}
        \cup {JsonObject(d) : d \in RecordsOver(AllKeys, FieldValues, MaxKeys)}

SampleBodies ==
    { InvalidBody,
      JsonObject(EmptyRecord),
      JsonObject(("City" :> "x")),
      JsonObject(("Business Email" :> "") @@ ("email" :> "c@d.com")),
      JsonObject(("WorkEmail" :> "a@b.com") @@ ("FirstName" :> "Ada")) }

----------------------------------------------------------------------------
(* Inbound responses: jsonify(...), status *)

Resp(code, status, message, details) ==
    [code |-> code, status |-> status, message |-> message, details |-> details]

NoResp == Resp(0, "none", "none", None)

InvalidRequestData == Resp(400, "error", "Invalid request data", None)
FailedToParse == Resp(400, "error", "Failed to parse JSON", None)
Skipped == Resp(200, "skipped", "Missing required field: email", None)
Created == Resp(201, "success", "Contact created in lemlist", None)
NetworkError == Resp(503, "error", "Network error connecting to lemlist", None)
InternalError == Resp(500, "error", "An internal server error occurred", None)
UpstreamFailed(text) ==
    Resp(502, "error", "Failed to create contact in lemlist", text)
\* an exception that leaves the view function: Flask's own 500 page
FlaskUnhandled == Resp(500, "unhandled", "Internal Server Error", None)

----------------------------------------------------------------------------
(* Upstream answers and thread records *)

Workers == {"w1", "w2"}
Main == "main"
Threads == Workers \cup {Main}

\* what the destination API does with one outbound call
Answer(kind, text, campaigns, id) ==
    [kind |-> kind, text |-> text, campaigns |-> campaigns, id |-> id]

NoAnswer == Answer("none", "", <<>>, None)

ErrorTexts == {"e1", "e2"}
SuccessTexts == {"json", "not json"}

\* the handler's local `response` (app.py:219); unbound until requests.post returns
NoResponse == [bound |-> FALSE, ok |-> FALSE, text |-> ""]
Response(ok, text) == [bound |-> TRUE, ok |-> ok, text |-> text]

NoCall == [issued |-> FALSE, campaign_id |-> None, email |-> None,
           payload |-> EmptyRecord]

NoBody == [kind |-> "none", data |-> EmptyRecord]

Thread(pc) ==
    [ pc |-> pc,
      body |-> NoBody,
      business_email |-> None,
      lemlist_payload |-> EmptyRecord,
      campaign_id |-> Unbound,
      response |-> NoResponse,
      answer |-> NoAnswer,
      resp |-> NoResp,
      sent |-> NoCall,
      nList |-> 0,
      nCreate |-> 0,
      nUpsert |-> 0,
      late |-> FALSE ]

----------------------------------------------------------------------------
(* rb2b_webhook_receiver, step 1 and 2: parse and validate *)

\* mutant: get_json(silent=True) without the except clause, so that a body
\* that is not JSON is taken for an object without keys
ParseResponse_Lenient(body) ==
    IF body.kind = "object" /\ DOMAIN body.data = {} THEN InvalidRequestData
    ELSE NoResp

\* request.get_json() and the test `if not rb2b_data` inside the try block:
\* the response the block returns, NoResp when the handler goes on.
ParseResponse(body) ==
    CASE body.kind = "invalid" -> FailedToParse    \* get_json raises
      [] body.kind = "falsy_value" -> InvalidRequestData
      \* len()/items() of a list, str or number raises inside the try block
      [] body.kind = "truthy_value" -> FailedToParse
      [] body.kind = "object" ->
            IF DOMAIN body.data = {} THEN InvalidRequestData ELSE NoResp

\* mutant: `if business_email is None`
MissingEmail_NoneOnly(d) == ExtractEmail(d) = None

\* `if not business_email`
MissingEmail(d) == ~Truthy(ExtractEmail(d))

\* lines 125-192: the thread record after the local part of the handler
Received(s, body, r) ==
    IF r /= NoResp
    THEN [s EXCEPT !.pc = "done", !.body = body, !.resp = r]
    ELSE IF MissingEmail(body.data)
    THEN [s EXCEPT !.pc = "done", !.body = body, !.resp = Skipped]
    ELSE [s EXCEPT !.pc = "call_resolver", !.body = body,
                   !.business_email = ExtractEmail(body.data),
                   !.lemlist_payload = BuildPayload(body.data)]

----------------------------------------------------------------------------
(* The except clauses of the handler, and the callers of the resolver *)

\* mutant: the 502 response leaves out the upstream body, and the network
\* clause answers 502 as well
ExceptResponse_NoDetails(exc, response) ==
    CASE exc = "HTTPError" -> UpstreamFailed(None)
      [] exc = "RequestException" -> UpstreamFailed(None)
      [] OTHER -> InternalError

\* lines 238-260.  The HTTPError clause reads the local `response`, which is
\* unbound when the exception came out of get_or_create_campaign: the
\* UnboundLocalError it raises leaves the view function.
ExceptResponse(exc, response) ==
    CASE exc = "HTTPError" ->
            IF response.bound THEN UpstreamFailed(response.text)
            ELSE FlaskUnhandled
      [] exc = "RequestException" -> NetworkError
      [] OTHER -> InternalError

\* get_or_create_campaign returned id to its caller: the handler sends the
\* upsert (lines 198-219), the __main__ block goes on to app.run (line 281)
AfterReturn(t, s, id) ==
    IF t = Main THEN [s EXCEPT !.pc = "main_serving"]
    ELSE [s EXCEPT !.pc = "await_upsert",
                   !.campaign_id = id,
                   !.nUpsert = @ + 1,
                   !.sent = [issued |-> TRUE, campaign_id |-> id,
                             email |-> s.business_email,
                             payload |-> s.lemlist_payload]]

\* mutant: a failed list or create call is tried once more
AfterRaise_Retry(t, s, exc) ==
    IF t /= Main /\ exc /= "ValueError" /\ s.nList < 2
    THEN [s EXCEPT !.pc = "call_resolver"]
    ELSE IF t = Main THEN [s EXCEPT !.pc = "main_exit"]
    ELSE [s EXCEPT !.pc = "done", !.resp = ExceptResponse(exc, s.response)]

\* get_or_create_campaign raised exc: the handler's except clauses answer
\* (lines 238-260), the __main__ block exits (lines 273-276)
AfterRaise(t, s, exc) ==
    IF t = Main THEN [s EXCEPT !.pc = "main_exit"]
    ELSE [s EXCEPT !.pc = "done", !.resp = ExceptResponse(exc, s.response)]

\* mutant: the except clause of the __main__ block logs and does not exit
ProcAfter_NoExit(t, s) ==
    IF t = Main /\ s.pc \in {"main_serving", "main_exit"} THEN "serving"
    ELSE proc

\* lines 270-281: app.run after a successful resolution, exit(1) after a
\* failed one
ProcAfter(t, s) ==
    IF t = Main /\ s.pc = "main_serving" THEN "serving"
    ELSE IF t = Main /\ s.pc = "main_exit" THEN "exited"
    ELSE proc

----------------------------------------------------------------------------
(* Actions *)

Set(t, s) == th' = [th EXCEPT ![t] = s]

\* A request arrives on an idle worker; lines 125-192 run (no shared state).
Receive(t, bodies) ==
    /\ proc = "serving"
    /\ th[t].pc = "idle"
    /\ budget > 0
    /\ \E body \in bodies : Set(t, Received(th[t], body, ParseResponse(body)))
    /\ budget' = budget - 1
    /\ UNCHANGED <<LEMLIST_API_KEY, CAMPAIGN_ID, launch, proc, remote,
                   createCalls, returned>>

\* mutant: the cache test is dropped
CacheHit_Never == FALSE

\* `if CAMPAIGN_ID`
CacheHit == Truthy(CAMPAIGN_ID)

\* mutant: `if LEMLIST_API_KEY is None`
MissingKey_NoneOnly == LEMLIST_API_KEY = None

\* `if not LEMLIST_API_KEY`
MissingKey == ~Truthy(LEMLIST_API_KEY)

\* get_or_create_campaign, lines 38-56: cache test, key test, GET /campaigns
ResolverEnter(t) ==
    /\ th[t].pc = "call_resolver"
    /\ LET s == [th[t] EXCEPT !.late = (returned /= {})]
           n == IF CacheHit THEN AfterReturn(t, s, CAMPAIGN_ID)
                ELSE IF MissingKey
                THEN AfterRaise(t, s, "ValueError")
                ELSE [s EXCEPT !.pc = "await_list", !.nList = @ + 1]
       IN  /\ Set(t, n)
           /\ proc' = ProcAfter(t, n)
           /\ returned' = IF CacheHit THEN returned \cup {CAMPAIGN_ID}
                          ELSE returned
    /\ UNCHANGED <<LEMLIST_API_KEY, CAMPAIGN_ID, launch, remote, budget,
                   createCalls>>

\* The destination API answers GET /campaigns: the list, an error status,
\* or the connection fails.
ApiListAnswer(t) ==
    /\ th[t].pc = "await_list"
    /\ \E a \in {Answer("ok", "json", remote, None)}
                  \cup {Answer("http_error", x, <<>>, None) : x \in ErrorTexts}
                  \cup {Answer("conn_error", "", <<>>, None)} :
          Set(t, [th[t] EXCEPT !.pc = "list_answered", !.answer = a])
    /\ UNCHANGED <<LEMLIST_API_KEY, CAMPAIGN_ID, launch, proc, remote, budget,
                   createCalls, returned>>

\* for campaign in campaigns: if campaign.get('name') == CAMPAIGN_NAME
Matches(campaigns) ==
    {i \in DOMAIN campaigns : campaigns[i].name = CAMPAIGN_NAME}

FirstMatch(campaigns) ==
    CHOOSE i \in Matches(campaigns) : \A j \in Matches(campaigns) : i <= j

\* the exception a failed outbound call raises (raise_for_status, or the
\* call itself)
ExcOf(a) == IF a.kind = "http_error" THEN "HTTPError" ELSE "RequestException"

\* lines 57-83 and 96-98: raise_for_status, the scan, POST /campaigns
ResolverScan(t) ==
    /\ th[t].pc = "list_answered"
    /\ LET s == th[t]
           a == s.answer
           found == a.kind = "ok" /\ Matches(a.campaigns) /= {}
           id == a.campaigns[FirstMatch(a.campaigns)]._id
           n == IF a.kind /= "ok" THEN AfterRaise(t, s, ExcOf(a))
                ELSE IF found THEN AfterReturn(t, s, id)
                ELSE [s EXCEPT !.pc = "await_create", !.nCreate = @ + 1]
       IN  /\ Set(t, n)
           /\ proc' = ProcAfter(t, n)
           /\ CAMPAIGN_ID' = IF found THEN id ELSE CAMPAIGN_ID
           /\ returned' = IF found THEN returned \cup {id} ELSE returned
           /\ createCalls' = IF a.kind = "ok" /\ ~found THEN createCalls + 1
                             ELSE createCalls
    /\ UNCHANGED <<LEMLIST_API_KEY, launch, remote, budget>>

NewId == "c" \o ToString(Len(remote) + 1)

\* The destination API answers POST /campaigns: it creates the campaign and
\* returns it, or answers an error status, or the connection fails.
ApiCreateAnswer(t) ==
    /\ th[t].pc = "await_create"
    /\ \/ /\ remote' = Append(remote, [name |-> CAMPAIGN_NAME, _id |-> NewId])
          /\ Set(t, [th[t] EXCEPT !.pc = "create_answered",
                                  !.answer = Answer("ok", "json", <<>>, NewId)])
       \/ /\ \E a \in {Answer("http_error", x, <<>>, None) : x \in ErrorTexts}
                        \cup {Answer("conn_error", "", <<>>, None)} :
                Set(t, [th[t] EXCEPT !.pc = "create_answered", !.answer = a])
          /\ UNCHANGED remote
    /\ UNCHANGED <<LEMLIST_API_KEY, CAMPAIGN_ID, launch, proc, budget,
                   createCalls, returned>>

\* mutant: the identifier is read from the answer and cached before
\* raise_for_status; an error body has no '_id'
CachedAfterCreate_Unchecked(a, cur) ==
    IF a.kind = "ok" THEN a.id ELSE IF a.kind = "http_error" THEN None ELSE cur

\* lines 89-92: CAMPAIGN_ID after the answer a to POST /campaigns, cur before
CachedAfterCreate(a, cur) == IF a.kind = "ok" THEN a.id ELSE cur

\* lines 85-98: raise_for_status, CAMPAIGN_ID = new_campaign.get('_id')
ResolverCreated(t) ==
    /\ th[t].pc = "create_answered"
    /\ LET s == th[t]
           a == s.answer
           n == IF a.kind = "ok" THEN AfterReturn(t, s, a.id)
                ELSE AfterRaise(t, s, ExcOf(a))
       IN  /\ Set(t, n)
           /\ proc' = ProcAfter(t, n)
           /\ CAMPAIGN_ID' = CachedAfterCreate(a, CAMPAIGN_ID)
           /\ returned' = IF a.kind = "ok" THEN returned \cup {a.id}
                          ELSE returned
    /\ UNCHANGED <<LEMLIST_API_KEY, launch, remote, budget, createCalls>>

\* The destination API answers POST /campaigns/{id}/leads/{email}.
ApiUpsertAnswer(t) ==
    /\ th[t].pc = "await_upsert"
    /\ \E a \in {Answer("ok", x, <<>>, None) : x \in SuccessTexts}
                  \cup {Answer("http_error", x, <<>>, None) : x \in ErrorTexts}
                  \cup {Answer("conn_error", "", <<>>, None)} :
          Set(t, [th[t] EXCEPT !.pc = "upsert_answered", !.answer = a])
    /\ UNCHANGED <<LEMLIST_API_KEY, CAMPAIGN_ID, launch, proc, remote, budget,
                   createCalls, returned>>

\* lines 219-260: the handler's answer to the outcome of the upsert call.
\* Line 234 logs response.json(), which raises JSONDecodeError (a
\* RequestException) on a success body that is not JSON.
UpsertResponse(a) ==
    CASE a.kind = "conn_error" -> ExceptResponse("RequestException", NoResponse)
      [] a.kind = "http_error" ->
            ExceptResponse("HTTPError", Response(FALSE, a.text))
      [] a.kind = "ok" ->
            IF a.text = "json" THEN Created
            ELSE ExceptResponse("RequestException", Response(TRUE, a.text))

HandleUpsert(t) ==
    /\ th[t].pc = "upsert_answered"
    /\ LET a == th[t].answer
       IN  Set(t, [th[t] EXCEPT !.pc = "done", !.resp = UpsertResponse(a),
                      !.response = IF a.kind = "conn_error" THEN NoResponse
                                   ELSE Response(a.kind = "ok", a.text)])
    /\ UNCHANGED <<LEMLIST_API_KEY, CAMPAIGN_ID, launch, proc, remote, budget,
                   createCalls, returned>>

\* The response is written; the worker is free for the next request.
Finish(t) ==
    /\ th[t].pc = "done"
    /\ Set(t, Thread("idle"))
    /\ UNCHANGED <<LEMLIST_API_KEY, CAMPAIGN_ID, launch, proc, remote, budget,
                   createCalls, returned>>

----------------------------------------------------------------------------
(* Specifications *)

InitialRemotes ==
    { <<>>,
      <<[name |-> "other", _id |-> "c1"]>>,
      <<[name |-> "other", _id |-> "c1"], [name |-> CAMPAIGN_NAME, _id |-> "c2"]>> }

\* line 264: `python app.py` runs the __main__ block before serving; a WSGI
\* server imports the module and serves `app` at once.
InitWith(launches, requests) ==
    /\ LEMLIST_API_KEY \in {None, "", "key"}   \* os.getenv: unset, empty, set
    /\ CAMPAIGN_ID = None
    /\ launch \in launches
    /\ proc = IF launch = "script" THEN "starting" ELSE "serving"
    /\ remote \in InitialRemotes
    /\ th = [t \in Threads |->
                IF t = Main
                THEN Thread(IF launch = "script" THEN "call_resolver" ELSE "not_run")
                ELSE Thread("idle")]
    /\ budget = requests
    /\ createCalls = 0
    /\ returned = {}

Init == InitWith({"script", "wsgi"}, MaxRequests)

Next ==
    \E t \in Threads :
        \/ t \in Workers /\ Receive(t, SampleBodies)
        \/ ResolverEnter(t)
        \/ ApiListAnswer(t)
        \/ ResolverScan(t)
        \/ ApiCreateAnswer(t)
        \/ ResolverCreated(t)
        \/ ApiUpsertAnswer(t)
        \/ HandleUpsert(t)
        \/ t \in Workers /\ Finish(t)

Spec == Init /\ [][Next]_vars

\* One worker, one request, drawn from every JSON object of at most MaxKeys
\* keys: the specification of the claims about parsing and field mapping.
WideThreads == {Main, "w1"}

InitWide == InitWith({"script", "wsgi"}, 1)

NextWide ==
    \E t \in WideThreads :
        \/ t \in Workers /\ Receive(t, WideBodies)
        \/ ResolverEnter(t)
        \/ ApiListAnswer(t)
        \/ ResolverScan(t)
        \/ ApiCreateAnswer(t)
        \/ ResolverCreated(t)
        \/ ApiUpsertAnswer(t)
        \/ HandleUpsert(t)
        \/ t \in Workers /\ Finish(t)

SpecWide == InitWide /\ [][NextWide]_vars

\* One worker, one request, started as a script (the campaign is resolved
\* before serving): every JSON object that carries a work email and at most
\* MaxKeys of the source keys of the target fields.  The specification of the
\* claims about the field mapping alone.
FieldKeys == UNION {Range(FieldSources[f]) : f \in TargetFields}

MappingBodies ==
    {JsonObject(Extend(d, "WorkEmail", "a@b.com")) :
        d \in RecordsOver(FieldKeys, FieldValues, MaxKeys)}

InitMap == InitWith({"script"}, 1)

NextMap ==
    \E t \in WideThreads :
        \/ t \in Workers /\ Receive(t, MappingBodies)
        \/ ResolverEnter(t)
        \/ ApiListAnswer(t)
        \/ ResolverScan(t)
        \/ ApiCreateAnswer(t)
        \/ ResolverCreated(t)
        \/ ApiUpsertAnswer(t)
        \/ HandleUpsert(t)
        \/ t \in Workers /\ Finish(t)

SpecMap == InitMap /\ [][NextMap]_vars

\* The steps of the program itself: a thread that can run does run.  The
\* arrival of requests and the answers of the destination API are the
\* environment's, and nothing obliges it to act.
ProgramStep(t) ==
    \/ ResolverEnter(t)
    \/ ResolverScan(t)
    \/ ResolverCreated(t)
    \/ HandleUpsert(t)
    \/ t \in Workers /\ Finish(t)

LiveSpec == Init /\ [][Next]_vars /\ \A t \in Threads : WF_vars(ProgramStep(t))

----------------------------------------------------------------------------
(* Vocabulary of the claims *)

\* a present, non-empty value under at least one recognised email key
HasEmail(d) == \E k \in Range(EmailKeys) : k \in DOMAIN d /\ d[k] /= ""

\* thread t is answering a JSON object that carries a usable email
ValidLead(t) == th[t].body.kind = "object" /\ HasEmail(th[t].body.data)

\* the request of thread t has been answered
Answered(t) == th[t].pc = "done"

NoOutboundCall(s) ==
    s.nList = 0 /\ s.nCreate = 0 /\ s.nUpsert = 0 /\ ~s.sent.issued

\* the resolver called by thread t failed on the list or the create call
ResolutionFailedWith(t, kind) ==
    /\ Answered(t)
    /\ ~th[t].sent.issued
    /\ th[t].nList = 1
    /\ th[t].answer.kind = kind

\* the API credential is absent (None) or empty
NoCredential == LEMLIST_API_KEY \in {None, ""}

FailedAnswer(s) ==
    /\ s.pc \in {"list_answered", "create_answered", "upsert_answered"}
    /\ s.answer.kind \in {"http_error", "conn_error"}

SameCalls(s, n) ==
    n.nList = s.nList /\ n.nCreate = s.nCreate /\ n.nUpsert = s.nUpsert

InResolverNetwork(s) ==
    s.pc \in {"await_list", "list_answered", "await_create", "create_answered"}

----------------------------------------------------------------------------
(* Claims *)

\* C1: within one process lifetime, over any number of sequential or
\* concurrent invocations of get_or_create_campaign, at most one
\* create-campaign call (POST /campaigns) is issued.
\* Refuted: two requests that both find no cached identifier both list, both
\* miss, and both create.
C1_AtMostOneCreate == createCalls <= 1

\* C2: when campaign resolution fails while handling a request with a valid
\* email, an error status on the list or create call yields the 502 error
\* response and a connection failure yields the 503 error response.
\* Refuted: the HTTPError clause reads the unbound local `response`, and the
\* request ends in an unhandled exception.
C2_ResolutionFailureMapped ==
    \A t \in Workers :
        /\ (ValidLead(t) /\ ResolutionFailedWith(t, "http_error"))
              => /\ th[t].resp.code = 502
                 /\ th[t].resp.status = "error"
                 /\ th[t].resp.message = "Failed to create contact in lemlist"
        /\ (ValidLead(t) /\ ResolutionFailedWith(t, "conn_error"))
              => th[t].resp =
                    Resp(503, "error", "Network error connecting to lemlist", None)

\* C3 (as stated): every JSON object whose three email keys are absent or
\* empty is answered with the skip response, status 200, and no upsert call.
\* Refuted by the empty object {}, which is answered 400.
C3_Original ==
    \A t \in Workers :
        (Answered(t) /\ th[t].body.kind = "object" /\ ~HasEmail(th[t].body.data))
            => /\ th[t].resp =
                    Resp(200, "skipped", "Missing required field: email", None)
               /\ th[t].nUpsert = 0

\* C3 (amended): every non-empty JSON object whose three email keys are
\* absent or empty is answered with the skip response, status 200, and no
\* outbound call is issued for it.
C3_SkipWithoutEmail ==
    \A t \in Workers :
        ( /\ th[t].body.kind = "object"
          /\ DOMAIN th[t].body.data /= {}
          /\ ~HasEmail(th[t].body.data) )
            => /\ Answered(t)
               /\ th[t].resp =
                    Resp(200, "skipped", "Missing required field: email", None)
               /\ NoOutboundCall(th[t])

C3_Witness ==
    \E t \in Workers :
        /\ Answered(t)
        /\ th[t].body.kind = "object"
        /\ "WorkEmail" \in DOMAIN th[t].body.data
        /\ th[t].body.data["WorkEmail"] = ""
        /\ th[t].resp.status = "skipped"

\* C4: the outbound contact payload holds a target field only if one of the
\* field's source keys supplied a present, non-empty value; it never carries
\* a null or an empty string.
\* Refuted: only None is filtered, so {"WorkEmail": "x", "City": ""} sends
\* {"city": ""}.
C4_NoPlaceholders ==
    \A t \in Workers :
        th[t].sent.issued =>
            \A f \in DOMAIN th[t].sent.payload :
                /\ th[t].sent.payload[f] \notin {None, ""}
                /\ \E k \in Range(FieldSources[f]) :
                      /\ k \in DOMAIN th[t].body.data
                      /\ th[t].body.data[k] /= ""

\* C5: a request whose body is empty or not valid JSON is answered 400 with
\* the message "Failed to parse JSON"; no outbound call is issued for it and
\* the cached campaign identifier is left as it was.
C5_BadBodyRejected ==
    /\ [](\A t \in Workers :
            th[t].body.kind = "invalid"
                => /\ Answered(t)
                   /\ th[t].resp = Resp(400, "error", "Failed to parse JSON", None)
                   /\ NoOutboundCall(th[t]))
    /\ [][\A t \in Workers :
            (th[t].pc = "idle" /\ th'[t].body.kind = "invalid")
                => /\ CAMPAIGN_ID' = CAMPAIGN_ID
                   /\ createCalls' = createCalls
                   /\ remote' = remote]_vars

C5_Witness ==
    \E t \in Workers :
        /\ Answered(t)
        /\ th[t].body.kind = "invalid"
        /\ th[t].resp.code = 400
        /\ \E u \in Workers : u /= t /\ InResolverNetwork(th[u])

\* C6: once an invocation of get_or_create_campaign has returned an
\* identifier, every invocation that starts later returns the cached
\* identifier at once, with no list-campaigns and no create-campaign call.
C6_CachedAfterSuccess ==
    /\ [](\A t \in Threads :
            th[t].late => /\ ~InResolverNetwork(th[t])
                          /\ th[t].nList = 0
                          /\ th[t].nCreate = 0)
    /\ [][\A t \in Threads :
            (th[t].pc = "call_resolver" /\ returned /= {} /\ th'[t] /= th[t])
                => /\ th'[t].pc = "await_upsert"
                   /\ th'[t].campaign_id = CAMPAIGN_ID
                   /\ CAMPAIGN_ID' = CAMPAIGN_ID
                   /\ createCalls' = createCalls]_vars

C6_Witness ==
    \E t \in Workers :
        /\ th[t].late
        /\ th[t].pc = "await_upsert"
        /\ th[t].campaign_id = CAMPAIGN_ID
        /\ launch = "wsgi"

\* C7: under any interleaving of invocations the cached identifier is
\* assigned once: the first successful resolution wins, the cached value
\* never changes afterwards, and every invocation that returns an identifier
\* returns that same value.
\* Refuted: two concurrent invocations each create a campaign; the second
\* overwrites the identifier cached by the first.
C7_AssignedOnce ==
    /\ Cardinality(returned) <= 1
    /\ CAMPAIGN_ID /= None => returned = {CAMPAIGN_ID}

\* C8: a JSON object with a non-empty value under one of the three email
\* keys is never answered with the skip response; the handler goes on to the
\* forwarding step: it calls the campaign resolver and, when the resolver
\* returns, issues the upsert.
C8_EmailProceeds ==
    \A t \in Workers :
        ValidLead(t)
            => /\ th[t].resp.status /= "skipped"
               /\ th[t].pc \notin {"idle"}
               /\ th[t].business_email \notin {None, ""}
               /\ Answered(t)
                    => \/ th[t].sent.issued
                       \/ th[t].nList = 1 /\ th[t].answer.kind /= "ok"
                       \/ NoCredential /\ th[t].resp.code = 500

C8_Witness ==
    \E t \in Workers :
        /\ ValidLead(t)
        /\ "WorkEmail" \notin DOMAIN th[t].body.data
        /\ Answered(t)
        /\ th[t].sent.issued
        /\ th[t].resp.code = 201

\* C9: every inbound request eventually receives a response, even when the
\* destination API never answers: every outbound call is bounded by a
\* network timeout.
\* Refuted: no call passes a timeout, so a request whose list-campaigns call
\* is never answered stays blocked for ever.
C9_EveryRequestAnswered ==
    \A t \in Workers : (th[t].pc /= "idle") ~> Answered(t)

\* C10: when campaign resolution has succeeded and the upsert call fails,
\* the handler answers 502 with the upstream body in details after a 4xx/5xx
\* status, and 503 after a connection or timeout failure.
C10_UpsertFailureMapped ==
    \A t \in Workers :
        (Answered(t) /\ th[t].sent.issued)
            => /\ th[t].answer.kind = "http_error"
                    => th[t].resp =
                         Resp(502, "error", "Failed to create contact in lemlist",
                              th[t].answer.text)
               /\ th[t].answer.kind = "conn_error"
                    => th[t].resp =
                         Resp(503, "error", "Network error connecting to lemlist",
                              None)

C10_Witness ==
    \E t \in Workers :
        /\ Answered(t)
        /\ th[t].sent.issued
        /\ th[t].answer.kind = "http_error"
        /\ th[t].resp.code = 502
        /\ th[t].resp.details = "e2"

\* C11: whenever the upsert call returns a success status, the handler
\* answers 201 with the success body, whatever the upstream response body.
\* Refuted: the success path logs response.json() (line 234); on a success
\* body that is not JSON it raises a RequestException and the handler
\* answers 503.
C11_SuccessIs201 ==
    \A t \in Workers :
        (Answered(t) /\ th[t].sent.issued /\ th[t].answer.kind = "ok")
            => th[t].resp =
                  Resp(201, "success", "Contact created in lemlist", None)

\* the __main__ block resolved the campaign and went on to app.run
StartupSucceeded == th[Main].pc = "main_serving" /\ Truthy(CAMPAIGN_ID)

\* some inbound request has been handed to the handler
SomeRequestHandled == budget < MaxRequests \/ \E t \in Workers : th[t].pc /= "idle"

\* C12 (as stated): the process serves inbound requests only after a campaign
\* resolution has succeeded at startup.
\* Refuted: the startup resolution lives in the __main__ block; a process
\* that serves the module's `app` object without running it handles
\* requests with no resolution done.
C12_Original == SomeRequestHandled => StartupSucceeded

\* C12 (amended): when app.py is run as a script, the process serves inbound
\* requests only after a campaign resolution has succeeded at startup; with
\* the API credential absent or empty, or the startup resolution failed, the
\* process exits and no inbound request is ever handled.
C12_ServeAfterStartup ==
    launch = "script" =>
        /\ (proc = "serving" \/ SomeRequestHandled) => StartupSucceeded
        /\ (NoCredential /\ th[Main].pc /= "call_resolver") => proc = "exited"
        /\ th[Main].pc = "main_exit" => proc = "exited"
        /\ proc = "exited" => ~SomeRequestHandled /\ CAMPAIGN_ID = None

C12_Witness ==
    /\ launch = "script"
    /\ proc = "exited"
    /\ th[Main].nList = 1
    /\ th[Main].answer.kind = "http_error"

\* C13: there is no retry: a request issues at most one upsert call, a
\* resolver invocation at most one list-campaigns and one create-campaign
\* call, and once an outbound call has failed the request issues no further
\* outbound call.
C13_NoRetry ==
    /\ [](\A t \in Threads :
            th[t].nList <= 1 /\ th[t].nCreate <= 1 /\ th[t].nUpsert <= 1)
    /\ [][\A t \in Threads :
            (FailedAnswer(th[t]) /\ th'[t] /= th[t])
                => /\ th'[t].pc \in {"done", "main_exit"}
                   /\ SameCalls(th[t], th'[t])
                   /\ createCalls' = createCalls]_vars

C13_Witness ==
    \E t \in Workers :
        /\ Answered(t)
        /\ th[t].nList = 1
        /\ th[t].nCreate = 1
        /\ th[t].nUpsert = 1
        /\ th[t].answer.kind = "conn_error"

\* C14: with no identifier cached and the API credential absent or empty,
\* the resolver fails with the configuration error (ValueError: the handler
\* answers 500, the __main__ block exits) before any list or create call,
\* and the cached identifier stays unset.
C14_NoCredentialNoCall ==
    /\ [](NoCredential
            => /\ CAMPAIGN_ID = None
               /\ createCalls = 0
               /\ \A t \in Threads : NoOutboundCall(th[t]))
    /\ [][\A t \in Threads :
            ( /\ th[t].pc = "call_resolver"
              /\ CAMPAIGN_ID \in {None, ""}
              /\ NoCredential
              /\ th'[t] /= th[t] )
                => /\ th'[t].pc = IF t = Main THEN "main_exit" ELSE "done"
                   /\ t /= Main =>
                        th'[t].resp =
                          Resp(500, "error", "An internal server error occurred", None)
                   /\ NoOutboundCall(th'[t])
                   /\ CAMPAIGN_ID' = CAMPAIGN_ID
                   /\ remote' = remote]_vars

C14_Witness ==
    \E t \in Workers :
        /\ LEMLIST_API_KEY = ""
        /\ ValidLead(t)
        /\ Answered(t)
        /\ th[t].resp.code = 500
        /\ CAMPAIGN_ID = None

\* the first non-empty value among WorkEmail, Business Email, email
FirstNonEmptyEmail(d) ==
    LET usable == {i \in DOMAIN EmailKeys :
                      EmailKeys[i] \in DOMAIN d /\ d[EmailKeys[i]] /= ""}
        first == CHOOSE i \in usable : \A j \in usable : i <= j
    IN  d[EmailKeys[first]]

\* C15: every upsert call is addressed by one resolved, non-null campaign
\* identifier, the one the resolver returned for that request, and by one
\* email address: the first non-empty value among WorkEmail, Business
\* Email, email, in that order.
C15_UpsertAddress ==
    \A t \in Workers :
        th[t].sent.issued
            => /\ th[t].sent.campaign_id \notin {None, "", Unbound}
               /\ th[t].sent.campaign_id = th[t].campaign_id
               /\ th[t].sent.campaign_id \in returned
               /\ \E i \in DOMAIN remote :
                     remote[i] = [name |-> "website_leads",
                                  _id |-> th[t].sent.campaign_id]
               /\ HasEmail(th[t].body.data)
               /\ th[t].sent.email = FirstNonEmptyEmail(th[t].body.data)

C15_Witness ==
    \E t \in Workers :
        /\ th[t].sent.issued
        /\ DOMAIN th[t].body.data = {"Business Email", "email"}
        /\ th[t].body.data["Business Email"] = "x"
        /\ th[t].body.data["email"] = "y"
        /\ th[t].sent.email = "x"
        /\ th[t].nCreate = 1

TwoKeyFields == {f \in TargetFields : Len(FieldSources[f]) = 2}

BothPresent(d, f) ==
    FieldSources[f][1] \in DOMAIN d /\ FieldSources[f][2] \in DOMAIN d

\* C16 (as stated): for a target field with two source keys, whenever both
\* keys are present the first-listed key's value is placed in the payload.
\* Refuted: `a or b` passes over an empty first value:
\* {"FirstName": "", "First Name": "y"} sends firstName = "y".
C16_Original ==
    \A t \in Workers :
        th[t].sent.issued =>
            \A f \in TwoKeyFields :
                BothPresent(th[t].body.data, f)
                    => /\ f \in DOMAIN th[t].sent.payload
                       /\ th[t].sent.payload[f] =
                             th[t].body.data[FieldSources[f][1]]

\* C16 (amended): for a target field with two source keys, whenever both
\* keys are present and the first-listed key holds a non-empty value, the
\* first-listed key's value is placed in the payload.
C16_FirstKeyWins ==
    \A t \in Workers :
        th[t].sent.issued =>
            \A f \in TwoKeyFields :
                ( /\ BothPresent(th[t].body.data, f)
                  /\ th[t].body.data[FieldSources[f][1]] /= "" )
                    => /\ f \in DOMAIN th[t].sent.payload
                       /\ th[t].sent.payload[f] =
                             th[t].body.data[FieldSources[f][1]]

C16_Witness ==
    \E t \in Workers :
        /\ th[t].sent.issued
        /\ BothPresent(th[t].body.data, "linkedinUrl")
        /\ th[t].body.data["LinkedIn URL"] = "x"
        /\ th[t].body.data["LinkedInUrl"] = "y"
        /\ th[t].sent.payload["linkedinUrl"] = "x"

\* thread t leaves get_or_create_campaign by an exception in this step
ResolverFails(t) ==
    /\ th[t].pc \in {"call_resolver", "list_answered", "create_answered"}
    /\ th'[t].pc \in {"done", "main_exit"}

\* C17: a resolver invocation that fails (missing credential, error status
\* or connection failure on the list or the create call) does not write the
\* cached identifier: it is unset as long as no invocation has returned, and
\* the next invocation that finds it unset performs a fresh list-campaigns
\* lookup.
C17_FailureKeepsCacheUnset ==
    /\ [](/\ CAMPAIGN_ID /= None => CAMPAIGN_ID \in returned
          /\ CAMPAIGN_ID /= "")
    /\ [][\A t \in Threads :
            /\ ResolverFails(t)
                 => CAMPAIGN_ID' = CAMPAIGN_ID /\ returned' = returned
            /\ ( /\ th[t].pc = "call_resolver"
                 /\ CAMPAIGN_ID = None
                 /\ ~NoCredential
                 /\ th'[t] /= th[t] )
                 => th'[t].pc = "await_list" /\ th'[t].nList = 1]_vars

C17_Witness ==
    \E t \in Workers :
        /\ th[t].pc = "await_list"
        /\ CAMPAIGN_ID = None
        /\ createCalls = 1
        /\ \A u \in Threads \ {t} : th[u].pc \in {"idle", "not_run"}

====
